---- MODULE Spec2Model ----
(***************************************************************************)
(* Reliable event-delivery core of the talkie gateway:                     *)
(*   - ChatService.enqueue / ChatRepository.createUserMessage (ordered     *)
(*     per-session message log, Kafka publish with outbox fallback),       *)
(*   - the outbox table and its publisher,                                 *)
(*   - ChatService.chatStream (resumable SSE over a Redis stream),         *)
(*   - SessionEventsStreamBridge (consumer-group poller).                  *)
(* Each subsystem has its own specification over its own variables; the    *)
(* variables of the other subsystems stay at their initial values.         *)
(***************************************************************************)
EXTENDS Integers, Sequences, FiniteSets, TLC

VARIABLES
    \* ---- Postgres, as seen by ChatService.enqueue ----
    chat_sessions,   \* set of session ids (rows of chat_sessions)
    chat_messages,   \* committed rows of chat_messages, in commit order
    sessionLock,     \* session id -> caller holding its row lock (FOR UPDATE)
    jobs,            \* rows of jobs: set of [id, session_id, status]
    outbox,          \* rows of outbox, in insertion (bigserial id) order
    kafkaLog,        \* messages the broker accepted: set of [topic, key]
    sessionStream,   \* sessions whose CREATED event reached the session stream
    req,             \* caller -> the enqueue call it is running
    calls,           \* number of enqueue calls started so far
    \* ---- outbox publisher ----
    pub,             \* publisher instance -> its position, batch and claimed row
    brokerDown,      \* publish attempts that will still fail before the broker recovers
    outage,          \* K: the number of failing attempts the run started with
    delivered,       \* outbox id -> times the broker received its message
    \* ---- chat SSE stream (ChatService.chatStream) ----
    stream,          \* entries ever added to sse:chat:<job>:<user>:events; id = position
    trimmed,         \* number of oldest entries the channel has dropped
    sse,             \* the handler of one SSE connection
    pings,           \* idle reads that have timed out so far
    \* ---- session-events bridge (SessionEventsStreamBridge) ----
    events,          \* entries ever added to the session-events stream; id = position
    grp,             \* the consumer group gql-session-events kept by Redis
    bridge,          \* the bridge of the running gateway process
    fanout,          \* ids published to the local PubSub, in order
    brLog,           \* history: what was claimed, each attempt's outcome, faults
    \* ---- history queries (ChatResolver.messages) ----
    page,            \* the last messages query: its arguments and its result
    \* ---- session deletion (ChatSessionResolver.deleteChatSession) ----
    deletion,        \* chat_sessions.status, the call in progress, the last history query
    \* ---- file deletion (IngestResolver.deleteFile) ----
    fileDeletion,    \* file_metadata.status, the call in progress, topic ingest.delete
    \* ---- createUserMessage's transaction (ChatRepository.createUserMessage) ----
    txn,             \* each caller's call and connection, and the session row lock
    \* ---- token refresh (refreshOnce, refreshToken) ----
    refresh,         \* the guards' module variables, the requests, the callers
    \* ---- useEventSource (one hook instance) ----
    eventSource,     \* the EventSources, the hook's refs and state, its timers
    \* ---- chat sessions store (ensureLoaded, reset) ----
    sessionsStore    \* _loadedSessions, _inflightSessions, the fetches, the callers

\* ---------------------------------------------------------------------------
\* Bounds of the model
\* ---------------------------------------------------------------------------
MaxCalls == 3          \* enqueue calls started in all (N of "N appends")
MaxEntries == 3        \* entries written to the chat stream
MaxPings == 1          \* idle (timed-out) reads of one SSE connection
MaxEvents == 3         \* entries written to the session-events stream
BatchCount == 2        \* COUNT of one XREADGROUP (32 in the bridge)
MaxCrashes == 1        \* gateway process deaths
MaxFaults == 1         \* Redis commands rejected while the connection is open
MaxMsgs == 3           \* rows of chat_messages the history queries run over
MaxDeletes == 3        \* deleteFile calls that reach the broker
MaxRefresh == 3        \* refresh requests started in all
MaxSources == 4        \* EventSources one hook instance constructs in all
MaxTimers == 2         \* reconnect timers pending at once
MaxFetches == 3        \* fetches ensureLoaded starts in all
MaxRows  == 2          \* outbox rows inserted while the publishers run
Ceiling  == 2          \* retry ceiling of the publisher
Limit    == 2          \* selectDue(limit)

Callers    == {"c1", "c2"}
Publishers == {"p1", "p2"}
SessionIds == {"s1", "s2"}
NoOne      == "none"
NULL       == "null"
NoTime     == -1      \* a NULL next_attempt_at (delays are counted in ticks >= 0)

dbVars  == <<chat_sessions, chat_messages, sessionLock, jobs, kafkaLog,
             sessionStream, req, calls>>
pubVars == <<pub, brokerDown, outage, delivered>>
sseVars == <<stream, trimmed, sse, pings>>
brVars  == <<events, grp, bridge, fanout, brLog>>
listVars == <<page>>
delVars  == <<deletion>>
fileVars == <<fileDeletion>>
txVars == <<txn>>
refVars == <<refresh>>
esVars == <<eventSource>>
storeVars == <<sessionsStore>>
\* the subsystems below the bridge, left alone by the ones above
newVars == <<listVars, delVars, fileVars, txVars, refVars, esVars, storeVars>>
oldVars == <<outbox, pubVars, sseVars, brVars>>
offList == <<oldVars, delVars, fileVars, txVars, refVars, esVars, storeVars>>
offDelete == <<oldVars, listVars, fileVars, txVars, refVars, esVars, storeVars>>
offFile == <<dbVars, oldVars, listVars, delVars, txVars, refVars, esVars, storeVars>>
offTx == <<dbVars, oldVars, listVars, delVars, fileVars, refVars, esVars, storeVars>>
offRefresh == <<dbVars, oldVars, listVars, delVars, fileVars, txVars, esVars, storeVars>>
offEventSource == <<dbVars, oldVars, listVars, delVars, fileVars, txVars, refVars, storeVars>>
offStore == <<dbVars, oldVars, listVars, delVars, fileVars, txVars, refVars, esVars>>

\* what the actions of one subsystem leave alone
offEnqueue == <<pubVars, sseVars, brVars, newVars>>
offOutbox  == <<dbVars, sseVars, brVars, newVars>>
offStream  == <<dbVars, outbox, pubVars, brVars, newVars>>
offBridge  == <<dbVars, outbox, pubVars, sseVars, newVars>>

\* ---------------------------------------------------------------------------
\* The parts of the state of the subsystems kept in one variable each
\* ---------------------------------------------------------------------------
\* session deletion
sessStatus == deletion.sessStatus   \* session id -> chat_sessions.status
del        == deletion.del          \* the deleteChatSession call in progress
seen       == deletion.seen         \* the last history query: what it returned, and when
Deletion(st, d, sn) == [sessStatus |-> st, del |-> d, seen |-> sn]

\* file deletion
file_metadata == fileDeletion.file_metadata  \* file id -> file_metadata.status
fdel          == fileDeletion.fdel           \* the deleteFile call in progress
ingestDelete  == fileDeletion.ingestDelete   \* messages the broker accepted on ingest.delete
FileDeletion(fm, fd, ing) == [file_metadata |-> fm, fdel |-> fd, ingestDelete |-> ing]

\* createUserMessage's transaction
tx      == txn.tx        \* caller -> its call: position, outcome, its connection's open transaction
rowLock == txn.rowLock   \* holder of the FOR UPDATE lock on the session row
Txn(perCaller, lock) == [tx |-> perCaller, rowLock |-> lock]

\* token refresh
inflight   == refresh.inflight     \* guard -> the promise its module variable holds (0: null)
refreshReq == refresh.refreshReq   \* refresh requests ever started: guard, state, result
got        == refresh.got          \* caller -> the promise its call returned, and its result
Refresh(inf, reqs, g) == [inflight |-> inf, refreshReq |-> reqs, got |-> g]

\* useEventSource
sources == eventSource.sources   \* EventSources ever constructed: readyState; id = position
esRef   == eventSource.esRef     \* esRef.current: an EventSource id (0: null)
mounted == eventSource.mounted   \* mounted.current
hook    == eventSource.hook      \* the component: phase, reducer status, its cleanup's source
timers  == eventSource.timers    \* reconnect timers scheduled and not yet fired
EventSource(srcs, ref, m, h, tm) ==
    [sources |-> srcs, esRef |-> ref, mounted |-> m, hook |-> h, timers |-> tm]

\* chat sessions store
loadedSessions   == sessionsStore.loadedSessions     \* ids whose fetch succeeded
inflightSessions == sessionsStore.inflightSessions   \* session id -> its fetch (0: no entry)
fetches          == sessionsStore.fetches            \* fetches ever started; id = position
held             == sessionsStore.held               \* caller -> what ensureLoaded returned
SessionsStore(ld, inf, fs, h) ==
    [loadedSessions |-> ld, inflightSessions |-> inf, fetches |-> fs, held |-> h]

\* ---------------------------------------------------------------------------
\* Helpers
\* ---------------------------------------------------------------------------
Range(s) == {s[i] : i \in 1..Len(s)}

SetMax(S) == CHOOSE m \in S : \A x \in S : x <= m

\* ---------------------------------------------------------------------------
\* ChatRepository (Postgres)
\* ---------------------------------------------------------------------------
MessagesOf(s) == {m \in Range(chat_messages) : m.session_id = s}

\* SELECT COALESCE(MAX(message_index), 0) + 1 FROM chat_messages WHERE session_id=$1
NextIndexSkipsOne(s) ==
    IF MessagesOf(s) = {} THEN 2
    ELSE SetMax({m.message_index : m \in MessagesOf(s)}) + 1

NextIndex(s) ==
    IF MessagesOf(s) = {} THEN 1
    ELSE SetMax({m.message_index : m \in MessagesOf(s)}) + 1

\* SELECT COALESCE(MAX(turn), 0) + 1 FROM chat_messages WHERE session_id=$1
NextTurn(s) ==
    IF MessagesOf(s) = {} THEN 1
    ELSE SetMax({m.turn : m \in MessagesOf(s)}) + 1

\* CREATE UNIQUE INDEX ux_chat_messages_session_idx ON chat_messages (session_id, message_index)
UniqueSessionIdx(s, idx) ==
    \A m \in MessagesOf(s) : m.message_index # idx

\* INSERT INTO outbox (topic, key, payload_json): the other columns take their
\* DDL defaults (status 'pending', retry_count 0, idempotency_key NULL,
\* next_attempt_at NULL); id is the bigserial, i.e. the insertion position.
OutboxRow(id, topic, key, tag) ==
    [id |-> id, topic |-> topic, key |-> key, idempotency_key |-> NULL,
     status |-> "pending", retry_count |-> 0, next_attempt_at |-> NoTime,
     tag |-> tag]

insertOutbox(topic, key, tag) ==
    Append(outbox, OutboxRow(Len(outbox) + 1, topic, key, tag))

\* ---------------------------------------------------------------------------
\* ChatService.enqueue, one action per await
\* ---------------------------------------------------------------------------
IdleReq == [pc |-> "idle", sessionId |-> NULL, isNew |-> FALSE, jobId |-> 0,
            nextIndex |-> 0, nextTurn |-> 0, produceFailed |-> FALSE,
            dbError |-> FALSE]

Ended(c) == req[c].pc \in {"idle", "done", "failed", "crashed"}

\* dto.jobId: a client-chosen id, unique per call
JobIdOf(n) == n

\* enqueue entry and _createOrUseSession: reuse dto.sessionId, or create a
\* session and XADD its CREATED event (failure of the XADD is only logged).
StartEnqueue(c) ==
    /\ Ended(c)
    /\ calls < MaxCalls
    /\ calls' = calls + 1
    /\ \/ \E s \in chat_sessions :
             /\ req' = [req EXCEPT ![c] = [IdleReq EXCEPT !.pc = "begin",
                           !.sessionId = s, !.jobId = JobIdOf(calls + 1)]]
             /\ UNCHANGED <<chat_sessions, sessionStream>>
       \/ \E s \in SessionIds \ chat_sessions : \E xaddOk \in BOOLEAN :
             /\ chat_sessions' = chat_sessions \cup {s}
             /\ sessionStream' = IF xaddOk THEN sessionStream \cup {s} ELSE sessionStream
             /\ req' = [req EXCEPT ![c] = [IdleReq EXCEPT !.pc = "begin",
                           !.sessionId = s, !.isNew = TRUE,
                           !.jobId = JobIdOf(calls + 1)]]
    /\ UNCHANGED <<chat_messages, sessionLock, jobs, outbox, kafkaLog>>
    /\ UNCHANGED offEnqueue

\* createUserMessage: BEGIN; SELECT id FROM chat_sessions WHERE id=$1 FOR UPDATE
\* (waits while another transaction holds the row lock).
LockSession(c) ==
    /\ req[c].pc = "begin"
    /\ sessionLock[req[c].sessionId] = NoOne
    /\ sessionLock' = [sessionLock EXCEPT ![req[c].sessionId] = c]
    /\ req' = [req EXCEPT ![c].pc = "compute"]
    /\ UNCHANGED <<chat_sessions, chat_messages, jobs, outbox, kafkaLog,
                   sessionStream, calls>>
    /\ UNCHANGED offEnqueue

\* createUserMessage: the two MAX+1 queries, under the lock.
ComputeCounters(c) ==
    /\ req[c].pc = "compute"
    /\ req' = [req EXCEPT ![c].pc = "insert",
                          ![c].nextIndex = NextIndex(req[c].sessionId),
                          ![c].nextTurn = NextTurn(req[c].sessionId)]
    /\ UNCHANGED <<chat_sessions, chat_messages, sessionLock, jobs, outbox,
                   kafkaLog, sessionStream, calls>>
    /\ UNCHANGED offEnqueue

\* createUserMessage: INSERT, then COMMIT (the row becomes visible and the row
\* lock is released). A unique-index violation raises, and the catch block
\* rolls back and rethrows.
InsertAndCommit(c) ==
    /\ req[c].pc = "insert"
    /\ IF UniqueSessionIdx(req[c].sessionId, req[c].nextIndex)
       THEN /\ chat_messages' = Append(chat_messages,
                   [session_id |-> req[c].sessionId,
                    message_index |-> req[c].nextIndex,
                    turn |-> req[c].nextTurn,
                    role |-> "user",
                    tag |-> req[c].jobId])
            /\ req' = [req EXCEPT ![c].pc = "job"]
       ELSE /\ req' = [req EXCEPT ![c].pc = "failed"]
            /\ UNCHANGED chat_messages
    /\ sessionLock' = [sessionLock EXCEPT ![req[c].sessionId] = NoOne]
    /\ UNCHANGED <<chat_sessions, jobs, outbox, kafkaLog, sessionStream, calls>>
    /\ UNCHANGED offEnqueue

\* createUserMessage: a query of the transaction throws (deadlock victim, lost
\* connection): ROLLBACK, release, rethrow; enqueue fails with it.
RollbackMessage(c) ==
    /\ req[c].pc \in {"compute", "insert"}
    /\ sessionLock' = [sessionLock EXCEPT ![req[c].sessionId] = NoOne]
    /\ req' = [req EXCEPT ![c].pc = "failed"]
    /\ UNCHANGED <<chat_sessions, chat_messages, jobs, outbox, kafkaLog,
                   sessionStream, calls>>
    /\ UNCHANGED offEnqueue

\* upsertJobQueued: INSERT ... ON CONFLICT (id) DO UPDATE SET status='queued'
UpsertJobQueued(c) ==
    /\ req[c].pc = "job"
    /\ jobs' = {j \in jobs : j.id # req[c].jobId}
                 \cup {[id |-> req[c].jobId, session_id |-> req[c].sessionId,
                        status |-> "queued"]}
    /\ req' = [req EXCEPT ![c].pc = IF req[c].isNew THEN "title" ELSE "produce"]
    /\ UNCHANGED <<chat_sessions, chat_messages, sessionLock, outbox, kafkaLog,
                   sessionStream, calls>>
    /\ UNCHANGED offEnqueue

\* if (isNew): kafka.produce('chat.title.generate'); the catch inserts the
\* outbox row instead.
ProduceTitle(c) ==
    /\ req[c].pc = "title"
    /\ \E brokerOk \in BOOLEAN :
          IF brokerOk
          THEN /\ kafkaLog' = kafkaLog \cup
                      {[topic |-> "chat.title.generate", key |-> req[c].jobId]}
               /\ req' = [req EXCEPT ![c].pc = "produce"]
          ELSE /\ req' = [req EXCEPT ![c].pc = "title_outbox"]
               /\ UNCHANGED kafkaLog
    /\ UNCHANGED <<chat_sessions, chat_messages, sessionLock, jobs, outbox,
                   sessionStream, calls>>
    /\ UNCHANGED offEnqueue

OutboxTitle(c) ==
    /\ req[c].pc = "title_outbox"
    /\ outbox' = insertOutbox("chat.title.generate", req[c].jobId, req[c].jobId)
    /\ req' = [req EXCEPT ![c].pc = "produce"]
    /\ UNCHANGED <<chat_sessions, chat_messages, sessionLock, jobs, kafkaLog,
                   sessionStream, calls>>
    /\ UNCHANGED offEnqueue

\* kafka.produce('chat.request') threw: the catch block takes over
OnProduceErrorRethrows(r) == [r EXCEPT !.pc = "failed", !.produceFailed = TRUE]

OnProduceError(r) == [r EXCEPT !.pc = "outbox", !.produceFailed = TRUE]

\* kafka.produce('chat.request', payload, jobId)
ProduceRequest(c) ==
    /\ req[c].pc = "produce"
    /\ \E brokerOk \in BOOLEAN :
          IF brokerOk
          THEN /\ kafkaLog' = kafkaLog \cup
                      {[topic |-> "chat.request", key |-> req[c].jobId]}
               /\ req' = [req EXCEPT ![c].pc = "done"]
          ELSE /\ req' = [req EXCEPT ![c] = OnProduceError(@)]
               /\ UNCHANGED kafkaLog
    /\ UNCHANGED <<chat_sessions, chat_messages, sessionLock, jobs, outbox,
                   sessionStream, calls>>
    /\ UNCHANGED offEnqueue

\* catch { insertOutbox('chat.request', jobId, payload) }; return
OutboxRequest(c) ==
    /\ req[c].pc = "outbox"
    /\ outbox' = insertOutbox("chat.request", req[c].jobId, req[c].jobId)
    /\ req' = [req EXCEPT ![c].pc = "done"]
    /\ UNCHANGED <<chat_sessions, chat_messages, sessionLock, jobs, kafkaLog,
                   sessionStream, calls>>
    /\ UNCHANGED offEnqueue

\* The gateway process dies: every call in flight is lost, Postgres aborts the
\* open transactions of the dropped connections and frees their row locks.
CrashGateway ==
    /\ \E c \in Callers : ~Ended(c)
    /\ req' = [c \in Callers |->
                 IF Ended(c) THEN req[c] ELSE [req[c] EXCEPT !.pc = "crashed"]]
    /\ sessionLock' = [s \in SessionIds |-> NoOne]
    /\ UNCHANGED <<chat_sessions, chat_messages, jobs, outbox, kafkaLog,
                   sessionStream, calls>>
    /\ UNCHANGED offEnqueue

InitDb ==
    /\ chat_sessions = {"s1"}
    /\ chat_messages = <<>>
    /\ sessionLock = [s \in SessionIds |-> NoOne]
    /\ jobs = {}
    /\ kafkaLog = {}
    /\ sessionStream = {}
    /\ req = [c \in Callers |-> IdleReq]
    /\ calls = 0

IdlePub == [pc |-> "idle", batch |-> <<>>, claimed |-> 0, affected |-> 1]

InitPub ==
    /\ pub = [p \in Publishers |-> IdlePub]
    /\ brokerDown = 0
    /\ outage = 0
    /\ delivered = <<>>

\* chatStream not yet called: no connection
NoSse == [loop |-> "off", lastId |-> 0, cursor |-> 0, stopped |-> FALSE,
          closed |-> FALSE, frames |-> <<>>, listening |-> FALSE,
          connected |-> FALSE, readUpTo |-> 0, aborted |-> FALSE,
          raised |-> FALSE]

InitSse ==
    /\ stream = <<>>
    /\ trimmed = 0
    /\ sse = NoSse
    /\ pings = 0

\* the gateway process is not running; the group does not exist yet
NoBridge == [pc |-> "down", running |-> FALSE, connected |-> FALSE, batch |-> <<>>]

InitBridge ==
    /\ events = <<>>
    /\ grp = [exists |-> FALSE, last |-> 0, pel |-> {}]
    /\ bridge = NoBridge
    /\ fanout = <<>>
    /\ brLog = [claimed |-> <<>>, outcome |-> {}, cut |-> {}, crashes |-> 0,
                faults |-> 0]

\* no history query has run
NoPage == [sessionId |-> NULL, first |-> 0, before |-> 0, rows |-> <<>>]

InitList == page = NoPage

\* no deleteChatSession call, no history query yet; a session row is
\* created with status 'active' (column default)
NoDel == [pc |-> "idle", sessionId |-> NULL, user |-> NULL, result |-> NULL]
NoSeen == [kind |-> "none", sessionId |-> NULL, wasDeleting |-> FALSE,
           sessions |-> {}, rows |-> <<>>]

InitDelete ==
    deletion = Deletion([s \in SessionIds |-> "active"], NoDel, NoSeen)

\* no deleteFile call yet; every file of Files is uploaded and owned by U
Files == {"f1", "f2"}
NoFileDel == [pc |-> "idle", fileId |-> NULL, user |-> NULL, error |-> NULL,
              result |-> 0]

InitFile ==
    fileDeletion = FileDeletion([f \in Files |-> "ready"], NoFileDel, <<>>)

\* no createUserMessage call yet: every pooled connection is idle, outside
\* a transaction, and the session row is unlocked
NoTx == [pc |-> "idle", inTxn |-> FALSE, outcome |-> NULL]

InitTx ==
    txn = Txn([c \in Callers |-> NoTx], NoOne)

\* the two single-flight guards of the web client: refreshOnce (REST calls)
\* and refreshToken (Apollo error link); both module variables start null
Guards == {"refreshOnce", "refreshToken"}
RefCallers == {"r1", "r2", "r3"}
NoGot == [guard |-> NULL, p |-> 0, sawPending |-> 0, received |-> FALSE,
          result |-> NULL]

InitRefresh ==
    refresh = Refresh([g \in Guards |-> 0], <<>>, [c \in RefCallers |-> NoGot])

\* the component before its first effect: useRef(null), useRef(true),
\* reducer status 'connecting', nothing scheduled
InitEventSource ==
    eventSource = EventSource(<<>>, 0, TRUE,
                      [phase |-> "rendered", status |-> "connecting",
                       detach |-> 0, lateTimers |-> 0],
                      0)

\* the module as loaded: new Set(), new Map(), no call made
InitStore ==
    sessionsStore = SessionsStore({}, [id \in SessionIds |-> 0], <<>>,
                                  [c \in Callers |-> 0])

InitNew ==
    /\ InitList
    /\ InitDelete
    /\ InitFile
    /\ InitTx
    /\ InitRefresh
    /\ InitEventSource
    /\ InitStore

\* A specification models one subsystem; the variables of the subsystems it
\* does not model hold a placeholder there and never change.
NotModelled == <<>>

DbNotModelled ==
    /\ chat_sessions = NotModelled
    /\ chat_messages = NotModelled
    /\ sessionLock = NotModelled
    /\ jobs = NotModelled
    /\ kafkaLog = NotModelled
    /\ sessionStream = NotModelled
    /\ req = NotModelled
    /\ calls = NotModelled

PubNotModelled ==
    /\ pub = NotModelled
    /\ brokerDown = NotModelled
    /\ outage = NotModelled
    /\ delivered = NotModelled

SseNotModelled ==
    /\ stream = NotModelled
    /\ trimmed = NotModelled
    /\ sse = NotModelled
    /\ pings = NotModelled

BridgeNotModelled ==
    /\ events = NotModelled
    /\ grp = NotModelled
    /\ bridge = NotModelled
    /\ fanout = NotModelled
    /\ brLog = NotModelled

InitNewNotModelled ==
    /\ page = NotModelled
    /\ deletion = NotModelled
    /\ fileDeletion = NotModelled
    /\ txn = NotModelled
    /\ refresh = NotModelled
    /\ eventSource = NotModelled
    /\ sessionsStore = NotModelled

InitEnqueue ==
    /\ InitDb
    /\ outbox = <<>>
    /\ PubNotModelled
    /\ SseNotModelled
    /\ BridgeNotModelled
    /\ InitNewNotModelled

NextEnqueue ==
    \E c \in Callers :
       \/ StartEnqueue(c)
       \/ LockSession(c)
       \/ ComputeCounters(c)
       \/ InsertAndCommit(c)
       \/ RollbackMessage(c)
       \/ UpsertJobQueued(c)
       \/ ProduceTitle(c)
       \/ OutboxTitle(c)
       \/ ProduceRequest(c)
       \/ OutboxRequest(c)
       \/ CrashGateway

vars == <<chat_sessions, chat_messages, sessionLock, jobs, outbox, kafkaLog,
          sessionStream, req, calls, pub, brokerDown, outage, delivered,
          stream, trimmed, sse, pings, events, grp, bridge, fanout, brLog,
          page, deletion, fileDeletion, txn, refresh, eventSource,
          sessionsStore>>

SpecEnqueue == InitEnqueue /\ [][NextEnqueue]_vars

\* ---------------------------------------------------------------------------
\* Claims about the message log and enqueue
\* ---------------------------------------------------------------------------
RowsOf(s) == SelectSeq(chat_messages, LAMBDA m : m.session_id = s)

\* C1: in every session the message_index values of the committed rows are
\* exactly 1..N, N the number of rows appended to it: no gap, no duplicate,
\* however the concurrent callers interleave.
SequencesGapless ==
    \A s \in SessionIds :
        /\ {RowsOf(s)[i].message_index : i \in 1..Len(RowsOf(s))} = 1..Len(RowsOf(s))
        /\ \A i, j \in 1..Len(RowsOf(s)) :
              RowsOf(s)[i].message_index = RowsOf(s)[j].message_index => i = j

\* C1 witness: one caller waits for the session row lock while another, holding
\* it, has computed index 2 behind an already committed row.
ContendedAppend ==
    \E c, d \in Callers :
        /\ c # d
        /\ req[c].pc = "begin"
        /\ req[d].pc = "insert"
        /\ req[c].sessionId = req[d].sessionId
        /\ sessionLock[req[d].sessionId] = d
        /\ req[d].nextIndex = 2
        /\ Len(RowsOf(req[d].sessionId)) = 1

HasLogRow(job) == \E m \in Range(chat_messages) : m.tag = job
HasOutboxRow(job) ==
    \E r \in Range(outbox) : r.tag = job /\ r.topic = "chat.request"

\* C2: for a call whose broker publish failed (the path that uses the outbox),
\* once the call has ended, by returning, failing or a crash of the gateway,
\* its message row and its outbox row exist both or neither.
LogAndOutboxTogether ==
    \A c \in Callers :
        (req[c].pc \in {"done", "failed", "crashed"} /\ req[c].produceFailed)
            => (HasLogRow(req[c].jobId) <=> HasOutboxRow(req[c].jobId))

\* ---------------------------------------------------------------------------
\* Outbox publisher: drains pending rows of the outbox table to the broker.
\* Time is kept as the delay left until next_attempt_at; Tick is the clock.
\* ---------------------------------------------------------------------------
BackoffBase == 1       \* first retry delay, in ticks
BackoffCap  == 2       \* maximum retry delay, in ticks
MaxOutage   == Ceiling + 1

Min(a, b) == IF a <= b THEN a ELSE b

RECURSIVE Pow2(_)
Pow2(n) == IF n <= 0 THEN 1 ELSE 2 * Pow2(n - 1)

\* exponential backoff capped at a maximum interval
Backoff(retryCount) == Min(BackoffBase * Pow2(retryCount - 1), BackoffCap)

\* status='pending' AND (nextAttemptAt IS NULL OR nextAttemptAt <= now())
IsDueNeverRetried(row) ==
    /\ row.status = "pending"
    /\ row.next_attempt_at = NoTime

IsDue(row) ==
    /\ row.status = "pending"
    /\ row.next_attempt_at \in {NoTime, 0}

RECURSIVE DueFrom(_, _)
\* ids of the due rows from id i on, in id order, at most k of them
DueFrom(i, k) ==
    IF i > Len(outbox) \/ k = 0 THEN <<>>
    ELSE IF IsDue(outbox[i]) THEN <<i>> \o DueFrom(i + 1, k - 1)
    ELSE DueFrom(i + 1, k)

selectDueNewestFirst(limit) ==
    [i \in 1..Len(DueFrom(1, limit)) |->
        DueFrom(1, limit)[Len(DueFrom(1, limit)) + 1 - i]]

selectDue(limit) == DueFrom(1, limit)

\* UPDATE outbox SET status='publishing' WHERE id=$1 AND status='pending'
CanClaimAnyStatus(row) == row.status \in {"pending", "publishing"}

CanClaim(row) == row.status = "pending"

\* retryCount > ceiling
ExhaustedOffByOne(row) == row.retry_count >= Ceiling

ExhaustedNever(row) == FALSE

Exhausted(row) == row.retry_count > Ceiling

\* where a publisher goes once it is through with a row of its batch
AfterRow(p, rest) ==
    [pc |-> IF rest = <<>> THEN "idle" ELSE "claim", batch |-> rest,
     claimed |-> 0, affected |-> pub[p].affected]

\* The business write path inserts a row (ChatRepository.insertOutbox); rows
\* arrive as enqueue writes them for a new session whose publishes fail: the
\* title row, then the request row.
TopicOf(id) == IF id % 2 = 1 THEN "chat.title.generate" ELSE "chat.request"

InsertRow ==
    /\ Len(outbox) < MaxRows
    /\ outbox' = insertOutbox(TopicOf(Len(outbox) + 1), Len(outbox) + 1,
                              Len(outbox) + 1)
    /\ delivered' = Append(delivered, 0)
    /\ UNCHANGED <<pub, brokerDown, outage>>
    /\ UNCHANGED offOutbox

SelectDue(p) ==
    /\ pub[p].pc = "idle"
    /\ selectDue(Limit) # <<>>
    /\ pub' = [pub EXCEPT ![p] = [pc |-> "claim", batch |-> selectDue(Limit),
                                  claimed |-> 0, affected |-> 1]]
    /\ UNCHANGED <<outbox, brokerDown, outage, delivered>>
    /\ UNCHANGED offOutbox

\* mark the next row of the batch 'publishing' with the conditional update
Claim(p) ==
    /\ pub[p].pc = "claim"
    /\ LET i == Head(pub[p].batch)
           rest == Tail(pub[p].batch)
       IN  IF CanClaim(outbox[i])
           THEN /\ outbox' = [outbox EXCEPT ![i].status = "publishing"]
                /\ pub' = [pub EXCEPT ![p] = [pc |-> "publish", batch |-> rest,
                                              claimed |-> i, affected |-> 1]]
           ELSE /\ pub' = [pub EXCEPT ![p] =
                              [AfterRow(p, rest) EXCEPT !.affected = 0]]
                /\ UNCHANGED outbox
    /\ UNCHANGED <<brokerDown, outage, delivered>>
    /\ UNCHANGED offOutbox

\* one delivery attempt, with its per-attempt timeout. While the broker is
\* down the attempt fails; a timed-out attempt may still have reached the
\* broker. On success the row is marked published; on failure it is marked
\* failed and its retry count incremented.
Publish(p) ==
    /\ pub[p].pc = "publish"
    /\ LET i == pub[p].claimed IN
         IF brokerDown = 0
         THEN /\ delivered' = [delivered EXCEPT ![i] = @ + 1]
              /\ outbox' = [outbox EXCEPT ![i].status = "published"]
              /\ pub' = [pub EXCEPT ![p] = AfterRow(p, pub[p].batch)]
              /\ UNCHANGED brokerDown
         ELSE /\ \E reached \in BOOLEAN :
                    delivered' = IF reached THEN [delivered EXCEPT ![i] = @ + 1]
                                 ELSE delivered
              /\ brokerDown' = brokerDown - 1
              /\ outbox' = [outbox EXCEPT ![i].status = "failed",
                                          ![i].retry_count = @ + 1]
              /\ pub' = [pub EXCEPT ![p].pc = "resched"]
    /\ UNCHANGED outage
    /\ UNCHANGED offOutbox

\* a failed row goes back to pending with a backoff, or is dead-lettered
Reschedule(p) ==
    /\ pub[p].pc = "resched"
    /\ LET i == pub[p].claimed IN
         /\ outbox' = IF Exhausted(outbox[i])
                      THEN [outbox EXCEPT ![i].status = "dead_lettered"]
                      ELSE [outbox EXCEPT ![i].status = "pending",
                               ![i].next_attempt_at = Backoff(outbox[i].retry_count)]
         /\ pub' = [pub EXCEPT ![p] = AfterRow(p, pub[p].batch)]
    /\ UNCHANGED <<brokerDown, outage, delivered>>
    /\ UNCHANGED offOutbox

\* time passes: every scheduled retry comes one tick closer
Tick ==
    /\ \E i \in 1..Len(outbox) : outbox[i].next_attempt_at \notin {NoTime, 0}
    /\ outbox' = [i \in 1..Len(outbox) |->
                    IF outbox[i].next_attempt_at \in {NoTime, 0} THEN outbox[i]
                    ELSE [outbox[i] EXCEPT !.next_attempt_at = @ - 1]]
    /\ UNCHANGED <<pub, brokerDown, outage, delivered>>
    /\ UNCHANGED offOutbox

InitOutbox ==
    /\ DbNotModelled
    /\ outbox = <<>>
    /\ pub = [p \in Publishers |-> IdlePub]
    /\ outage \in 0..MaxOutage
    /\ brokerDown = outage
    /\ delivered = <<>>
    /\ SseNotModelled
    /\ BridgeNotModelled
    /\ InitNewNotModelled

PublisherStep(p) == SelectDue(p) \/ Claim(p) \/ Publish(p) \/ Reschedule(p)

NextOutbox ==
    \/ InsertRow
    \/ Tick
    \/ \E p \in Publishers :
          \/ SelectDue(p)
          \/ Claim(p)
          \/ Publish(p)
          \/ Reschedule(p)

SpecOutbox == InitOutbox /\ [][NextOutbox]_vars

\* every publisher instance keeps running and the clock keeps ticking; the
\* steps change the outbox and the publishers only
SpecOutboxFair ==
    /\ SpecOutbox
    /\ \A p \in Publishers : WF_<<outbox, pubVars>>(PublisherStep(p))
    /\ WF_<<outbox, pubVars>>(Tick)

\* ---------------------------------------------------------------------------
\* Claims about the outbox and its publisher
\* ---------------------------------------------------------------------------
RowIds == 1..MaxRows

\* C3 (as amended): when the broker fails the first K publish attempts, K not
\* above the retry ceiling, and then recovers, every outbox row eventually is
\* published and the broker has received its message at least once.
PublishedAfterOutage ==
    (outage <= Ceiling) =>
        \A i \in RowIds :
            [](Len(outbox) >= i =>
                  <>(/\ Len(outbox) >= i
                     /\ outbox[i].status = "published"
                     /\ delivered[i] >= 1))

\* C3 as claimed: whatever the number K of failing attempts, every outbox row
\* eventually is published.
PublishedAfterAnyOutage ==
    \A i \in RowIds :
        [](Len(outbox) >= i =>
              <>(Len(outbox) >= i /\ outbox[i].status = "published"))

\* C3 witness: a row published after exactly Ceiling failed attempts, the
\* broker having recovered.
PublishedAfterRetries ==
    \E i \in 1..Len(outbox) :
        /\ outbox[i].status = "published"
        /\ outbox[i].retry_count = Ceiling
        /\ outage = Ceiling
        /\ brokerDown = 0
        /\ delivered[i] >= 1

Holders(i) == {p \in Publishers : pub[p].claimed = i}

\* C4: a row is in flight (publishing, or failed and not yet rescheduled) for
\* exactly one publisher instance, the one whose conditional update changed it;
\* no two instances ever hold the same row, and a publisher whose update
\* changed no row holds none.
SingleClaim ==
    /\ \A i \in 1..Len(outbox) :
          /\ Cardinality(Holders(i)) <= 1
          /\ outbox[i].status \in {"publishing", "failed"}
                <=> Cardinality(Holders(i)) = 1
    /\ \A p \in Publishers :
          (pub[p].affected = 0 /\ pub[p].pc # "publish") => pub[p].claimed = 0

\* C4 witness: both instances selected the same pending row; one moved it to
\* publishing, the other's update changed no row.
RaceLost ==
    \E p, q \in Publishers : \E i \in 1..Len(outbox) :
        /\ p # q
        /\ pub[p].claimed = i
        /\ pub[p].pc = "publish"
        /\ outbox[i].status = "publishing"
        /\ pub[q].affected = 0
        /\ pub[q].claimed = 0
        /\ outbox[i].retry_count = 0
        /\ Len(outbox) = 1

StatusStep(old, new) ==
    \/ old.status = new.status
    \/ old.status = "pending" /\ new.status = "publishing"
    \/ old.status = "publishing" /\ new.status \in {"published", "failed"}
    \/ old.status = "failed" /\ new.status = "pending"
                             /\ old.retry_count <= Ceiling
    \/ old.status = "failed" /\ new.status = "dead_lettered"
                             /\ old.retry_count > Ceiling

\* C9: a row starts pending and its status only ever moves pending ->
\* publishing -> published | failed, failed -> pending while retry_count is at
\* most the ceiling, failed -> dead_lettered once it is above.
StatusTransitions ==
    [][\A i \in 1..Len(outbox) : StatusStep(outbox[i], outbox'[i])]_vars

\* C9 witness: a row has gone failed -> pending and another (or the same one
\* later) could go on; here: a row that is pending again with a retry behind it.
RetriedRow ==
    \E i \in 1..Len(outbox) :
        outbox[i].status = "pending" /\ outbox[i].retry_count = Ceiling

\* C10: a row is dead-lettered exactly when its publish has failed Ceiling+1
\* times, and a dead-lettered row is never changed, selected into a batch or
\* delivered again.
DeadLetterStep ==
    \A i \in 1..Len(outbox) :
        /\ (outbox[i].status = "failed" /\ outbox[i].retry_count = Ceiling + 1
              /\ outbox'[i].status # "failed")
              => outbox'[i].status = "dead_lettered"
        /\ outbox[i].status = "dead_lettered" =>
              /\ outbox'[i].status = "dead_lettered"
              /\ outbox'[i].retry_count = outbox[i].retry_count
              /\ delivered'[i] = delivered[i]
              /\ \A p \in Publishers :
                    pub'[p].batch # pub[p].batch /\ pub[p].pc = "idle"
                        => i \notin Range(pub'[p].batch)

DeadLetterFinal ==
    /\ [](\A i \in 1..Len(outbox) :
            outbox[i].status = "dead_lettered"
                => outbox[i].retry_count = Ceiling + 1)
    /\ [][DeadLetterStep]_vars

\* C10 witness: a dead-lettered row while a publisher selects again.
DeadLetteredRow ==
    \E i \in 1..Len(outbox) : \E p \in Publishers :
        /\ outbox[i].status = "dead_lettered"
        /\ outbox[i].retry_count = Ceiling + 1
        /\ pub[p].pc = "claim"
        /\ Len(outbox) > 1

\* ---------------------------------------------------------------------------
\* ChatService.chatStream: one SSE connection of user U for job J reading the
\* Redis stream sse:chat:J:U:events with XREAD BLOCK 15000 from a cursor.
\* Entry ids are the positions in the stream; "0-0" is 0.
\* ---------------------------------------------------------------------------
U == "u1"
J == "j1"

Entry(valid, userId, jobId, event) ==
    [valid |-> valid, userId |-> userId, jobId |-> jobId, event |-> event]

\* what a writer may put in the channel: events of this user and job, a
\* payload that fails JSON.parse / StreamEventSchema.parse, and events that
\* carry another user's id, another job's id, or both
EntryKinds ==
    { Entry(TRUE, U, J, "token"), Entry(TRUE, U, J, "done"),
      Entry(TRUE, U, J, "error"), Entry(FALSE, U, J, "token"),
      Entry(TRUE, "u2", J, "token"), Entry(TRUE, U, "j2", "token"),
      Entry(TRUE, "u2", "j2", "token") }

RECURSIVE IdsFromTo(_, _)
IdsFromTo(a, b) == IF a > b THEN <<>> ELSE <<a>> \o IdsFromTo(a + 1, b)

\* reader.xread('BLOCK', 15000, 'STREAMS', streamKey, cursor): the entries
\* still in the channel whose id is greater than the cursor, in id order
xreadFromCursorInclusive(cursor) ==
    IdsFromTo((IF cursor > trimmed THEN cursor ELSE trimmed + 1), Len(stream))

xread(cursor) ==
    IdsFromTo((IF cursor > trimmed THEN cursor ELSE trimmed) + 1, Len(stream))

\* if (evt.userId !== userId && evt.jobId !== jobId) continue;
Filtered(e) == e.userId # U /\ e.jobId # J

\* eventName === 'done' || eventName === 'error'
IsTerminalNever(event) == FALSE

IsTerminal(event) == event \in {"done", "error"}

\* what a thrown Redis error carries
RedisErrors ==
    { [message |-> "connect ECONNREFUSED 10.0.3.7:6379", stack |-> "at Socket"],
      [message |-> "Connection is closed.", stack |-> "at Redis.sendCommand"] }

\* err instanceof Error ? err.message : String(err)
MessageOf(err) == err.message

\* subscriber.next(frame): ignored once the subscriber is closed.
\* data is "event" for a forwarded entry (publicEvt), "ts" for a ping and
\* the message text for an error frame of the handler itself.
Emit(st, type, id, data) ==
    IF st.closed THEN st
    ELSE [st EXCEPT !.frames = Append(@, [type |-> type, id |-> id,
                                          data |-> data])]

\* subscriber.next({ type: 'ping', data: { ts: Date.now() } })
IdleFrameNone(st) == st

IdleFrame(st) == Emit(st, "ping", 0, "ts")

\* the teardown returned to the Observable: stopped = true,
\* reader.removeListener('error', onError), reader.disconnect(), each in a
\* try/catch that only warns; raised tells whether an error escaped it
TeardownUnguarded(st) ==
    [st EXCEPT !.stopped = TRUE, !.listening = FALSE, !.connected = FALSE,
               !.raised = @ \/ ~st.connected]

TeardownLeaksReader(st) ==
    [st EXCEPT !.stopped = TRUE, !.listening = FALSE]

Teardown(st) ==
    [st EXCEPT !.stopped = TRUE, !.listening = FALSE, !.connected = FALSE]

\* subscriber.complete(): closes the subscriber and runs the teardown once
Complete(st) ==
    IF st.closed THEN st ELSE Teardown([st EXCEPT !.closed = TRUE])

RECURSIVE ProcessEntries(_, _)
\* the for loop over the entries of one XREAD reply
ProcessEntries(ids, st) ==
    IF ids = <<>> THEN st
    ELSE LET id == Head(ids)
             e  == stream[id]
             s1 == [st EXCEPT !.cursor = id]
         IN  IF ~e.valid \/ Filtered(e)
             THEN ProcessEntries(Tail(ids), s1)
             ELSE IF IsTerminal(e.event)
                  THEN Complete([Emit(s1, e.event, id, "event")
                                     EXCEPT !.stopped = TRUE])
                  ELSE ProcessEntries(Tail(ids), Emit(s1, e.event, id, "event"))

\* while (!stopped && !subscriber.closed)
LoopAfter(st) ==
    [st EXCEPT !.loop = IF st.stopped \/ st.closed THEN "exited" ELSE "waiting"]

\* ChatController.stream / chatStream: subscribe with the Last-Event-ID the
\* client sent (default "0-0"), attach the error listener, start the loop.
OpenStream(lastId) ==
    /\ sse.loop = "off"
    /\ sse' = [NoSse EXCEPT !.loop = "waiting", !.lastId = lastId,
                            !.cursor = lastId, !.readUpTo = lastId,
                            !.listening = TRUE, !.connected = TRUE]
    /\ UNCHANGED <<stream, trimmed, pings>>
    /\ UNCHANGED offStream

\* the XREAD returns entries: the for loop runs over all of them
XreadEntries ==
    /\ sse.loop = "waiting"
    /\ sse.connected
    /\ xread(sse.cursor) # <<>>
    /\ sse' = LoopAfter([ProcessEntries(xread(sse.cursor), sse)
                            EXCEPT !.readUpTo = Len(stream)])
    /\ UNCHANGED <<stream, trimmed, pings>>
    /\ UNCHANGED offStream

\* the XREAD times out after 15 s with no entry: heartbeat
XreadIdle ==
    /\ sse.loop = "waiting"
    /\ sse.connected
    /\ xread(sse.cursor) = <<>>
    /\ pings < MaxPings
    /\ pings' = pings + 1
    /\ sse' = LoopAfter(IdleFrame(sse))
    /\ UNCHANGED <<stream, trimmed>>
    /\ UNCHANGED offStream

\* the XREAD rejects (Redis error, or the reader was disconnected by the
\* teardown): catch block
XreadThrows ==
    /\ sse.loop = "waiting"
    /\ \E err \in RedisErrors :
          sse' = LoopAfter(Complete([Emit(sse, "error", 0, MessageOf(err))
                                EXCEPT !.stopped = TRUE, !.aborted = TRUE]))
    /\ UNCHANGED <<stream, trimmed, pings>>
    /\ UNCHANGED offStream

\* the reader emits 'error': onError
ReaderError ==
    /\ sse.listening
    /\ \E err \in RedisErrors :
          sse' = IF ~sse.stopped /\ ~sse.closed
                 THEN Complete([Emit(sse, "error", 0, MessageOf(err))
                                   EXCEPT !.stopped = TRUE, !.aborted = TRUE])
                 ELSE sse
    /\ UNCHANGED <<stream, trimmed, pings>>
    /\ UNCHANGED offStream

\* the client goes away: Nest unsubscribes, which runs the teardown
ClientDisconnect ==
    /\ sse.loop # "off"
    /\ ~sse.closed
    /\ sse' = Teardown([sse EXCEPT !.closed = TRUE, !.aborted = TRUE])
    /\ UNCHANGED <<stream, trimmed, pings>>
    /\ UNCHANGED offStream

\* a producer XADDs an entry to the channel
WriterAppend ==
    /\ Len(stream) < MaxEntries
    /\ \E e \in EntryKinds : stream' = Append(stream, e)
    /\ UNCHANGED <<trimmed, sse, pings>>
    /\ UNCHANGED offStream

\* the channel is capped: its oldest entry is dropped
Trim ==
    /\ trimmed < Len(stream)
    /\ trimmed' = trimmed + 1
    /\ UNCHANGED <<stream, sse, pings>>
    /\ UNCHANGED offStream

InitStream ==
    /\ DbNotModelled
    /\ outbox = NotModelled
    /\ PubNotModelled
    /\ InitSse
    /\ BridgeNotModelled
    /\ InitNewNotModelled

NextStream ==
    \/ \E lastId \in 0..Len(stream) : OpenStream(lastId)
    \/ XreadEntries
    \/ XreadIdle
    \/ XreadThrows
    \/ ReaderError
    \/ ClientDisconnect
    \/ WriterAppend
    \/ Trim

SpecStream == InitStream /\ [][NextStream]_vars

\* ---------------------------------------------------------------------------
\* Claims about the chat SSE stream
\* ---------------------------------------------------------------------------
\* the entry ids of the frames that carry a channel entry, in emission order
RECURSIVE EventIds(_)
EventIds(frames) ==
    IF frames = <<>> THEN <<>>
    ELSE IF Head(frames).id > 0 THEN <<Head(frames).id>> \o EventIds(Tail(frames))
    ELSE EventIds(Tail(frames))

\* every entry after the cursor the client sent is a well-formed event of this
\* user and job, and a terminal event, if any, is the last entry
CleanAfter(lastId) ==
    \A i \in (lastId + 1)..Len(stream) :
        /\ stream[i].valid
        /\ stream[i].userId = U
        /\ stream[i].jobId = J
        /\ stream[i].event \in {"done", "error"} => i = Len(stream)

\* C5: with nothing trimmed and the entries after lastEventId well-formed
\* events of this stream, a connection that has not been cut (no disconnect, no
\* Redis error) has emitted exactly the entries lastEventId+1 .. cursor, in
\* order, once each, and every read consumed all the entries there were.
ResumeExact ==
    (sse.loop # "off" /\ ~sse.aborted /\ trimmed = 0 /\ CleanAfter(sse.lastId))
        => /\ EventIds(sse.frames) = IdsFromTo(sse.lastId + 1, sse.cursor)
           /\ sse.cursor = sse.readUpTo

\* C5 witness: opened at e1 of three clean entries, the stream has emitted
\* e2 and e3.
ResumedMidChannel ==
    /\ sse.lastId = 1
    /\ ~sse.aborted
    /\ trimmed = 0
    /\ Len(stream) = MaxEntries
    /\ CleanAfter(0)
    /\ EventIds(sse.frames) = IdsFromTo(2, MaxEntries)

\* C6: every frame that carries a channel entry carries one whose userId is
\* the requesting user and whose jobId is the requested job.
OnlyOwnEntries ==
    \A k \in 1..Len(sse.frames) :
        sse.frames[k].id > 0 =>
            /\ stream[sse.frames[k].id].userId = U
            /\ stream[sse.frames[k].id].jobId = J

\* ---------------------------------------------------------------------------
\* SessionEventsStreamBridge: XREADGROUP poller of the session-events stream
\* that forwards each entry to the local PubSub and XACKs it.
\* grp.last is the group's last-delivered id, grp.pel its pending entries
\* list. bridge.pc is the position of startPolling: "poll" (awaiting
\* XREADGROUP), "parse", "publish", "ack" (XACK in the try block), "ackErr"
\* (XACK in the catch block), "sleep" (outer catch), "stopped" (loop left),
\* "down" (no process).
\* ---------------------------------------------------------------------------
EventKinds == {"ok", "bad"}       \* payload passes / fails parsePayload

\* while (this.running)
LoopHeadExits(b) == "stopped"

LoopHead(b) == IF b.running THEN "poll" ELSE "stopped"

\* the outcomes a Redis command can have: a closed connection rejects it,
\* an open one may reject it (transient fault)
RedisOutcomes ==
    IF ~bridge.connected THEN {FALSE}
    ELSE IF brLog.faults < MaxFaults THEN {TRUE, FALSE} ELSE {TRUE}

CountFault(ok) ==
    IF ~ok /\ bridge.connected THEN [brLog EXCEPT !.faults = @ + 1] ELSE brLog

\* XREADGROUP ... COUNT n STREAMS stream '>': the entries never delivered to
\* the group, oldest first, at most n of them
NeverDelivered ==
    IdsFromTo(grp.last + 1,
              IF Len(events) < grp.last + BatchCount THEN Len(events)
              ELSE grp.last + BatchCount)

\* XACK stream group id
xack(pel, id) == pel \ {id}

\* the catch block of one entry without its XACK
AckOnErrorSkipped(pel, id) == pel

\* the catch block of one entry: log, then XACK
AckOnError(pel, id) == xack(pel, id)

\* _createOrUseSession (or another producer) XADDs a session event
XaddEvent ==
    /\ Len(events) < MaxEvents
    /\ \E k \in EventKinds : events' = Append(events, k)
    /\ UNCHANGED <<grp, bridge, fanout, brLog>>
    /\ UNCHANGED offBridge

\* onModuleInit of a new process: XGROUP CREATE ... '$' MKSTREAM (BUSYGROUP
\* ignored), then start the loop with running = true
onModuleInit ==
    /\ bridge.pc = "down"
    /\ grp' = IF grp.exists THEN grp
              ELSE [exists |-> TRUE, last |-> Len(events), pel |-> {}]
    /\ bridge' = [pc |-> "poll", running |-> TRUE, connected |-> TRUE,
                  batch |-> <<>>]
    /\ UNCHANGED <<events, fanout, brLog>>
    /\ UNCHANGED offBridge

\* XREADGROUP returns entries: Redis moves them to the pending list
Xreadgroup ==
    /\ bridge.pc = "poll"
    /\ bridge.connected
    /\ NeverDelivered # <<>>
    /\ grp' = [grp EXCEPT !.last = @ + Len(NeverDelivered),
                          !.pel = @ \cup Range(NeverDelivered)]
    /\ bridge' = [bridge EXCEPT !.pc = "parse", !.batch = NeverDelivered]
    /\ brLog' = [brLog EXCEPT !.claimed = @ \o NeverDelivered]
    /\ UNCHANGED <<events, fanout>>
    /\ UNCHANGED offBridge

\* XREADGROUP rejects: outer catch, warn, sleep 500 ms
XreadgroupThrows ==
    /\ bridge.pc = "poll"
    /\ FALSE \in RedisOutcomes
    /\ bridge' = [bridge EXCEPT !.pc = "sleep"]
    /\ brLog' = CountFault(FALSE)
    /\ UNCHANGED <<events, grp, fanout>>
    /\ UNCHANGED offBridge

SleepDone ==
    /\ bridge.pc = "sleep"
    /\ bridge' = [bridge EXCEPT !.pc = LoopHead(bridge)]
    /\ UNCHANGED <<events, grp, fanout, brLog>>
    /\ UNCHANGED offBridge

\* parsePayload threw inside the entry's try block: its catch block runs
OnParseErrorEscapes(b) == [b EXCEPT !.pc = "sleep", !.batch = <<>>]

OnParseError(b) == [b EXCEPT !.pc = "ackErr"]

\* this.parsePayload(fields): throws on an invalid payload
ParseEntry ==
    /\ bridge.pc = "parse"
    /\ LET id == Head(bridge.batch)
       IN  IF events[id] = "ok"
           THEN /\ bridge' = [bridge EXCEPT !.pc = "publish"]
                /\ UNCHANGED brLog
           ELSE /\ bridge' = OnParseError(bridge)
                /\ brLog' = [brLog EXCEPT !.outcome = @ \cup {<<id, "parseFailed">>}]
    /\ UNCHANGED <<events, grp, fanout>>
    /\ UNCHANGED offBridge

\* await this.pubsub.publish(TRIGGER_SESSION_EVENTS, payload)
PublishEntry ==
    /\ bridge.pc = "publish"
    /\ LET id == Head(bridge.batch)
       IN  \E ok \in BOOLEAN :
              IF ok
              THEN /\ fanout' = Append(fanout, id)
                   /\ bridge' = [bridge EXCEPT !.pc = "ack"]
                   /\ brLog' = [brLog EXCEPT !.outcome = @ \cup {<<id, "forwarded">>}]
              ELSE /\ fanout' = fanout
                   /\ bridge' = [bridge EXCEPT !.pc = "ackErr"]
                   /\ brLog' = [brLog EXCEPT !.outcome = @ \cup {<<id, "publishFailed">>}]
    /\ UNCHANGED <<events, grp>>
    /\ UNCHANGED offBridge

\* the next iteration of the for loops, or back to the while
NextEntry(b) ==
    IF Tail(b.batch) = <<>>
    THEN [b EXCEPT !.batch = <<>>, !.pc = LoopHead(b)]
    ELSE [b EXCEPT !.batch = Tail(@), !.pc = "parse"]

\* await this.redis.xack(stream, group, id) in the try block; a rejection
\* is caught by the entry's catch block
XackEntry ==
    /\ bridge.pc = "ack"
    /\ LET id == Head(bridge.batch)
       IN  \E ok \in RedisOutcomes :
              /\ brLog' = CountFault(ok)
              /\ IF ok
                 THEN /\ grp' = [grp EXCEPT !.pel = xack(@, id)]
                      /\ bridge' = NextEntry(bridge)
                 ELSE /\ grp' = grp
                      /\ bridge' = [bridge EXCEPT !.pc = "ackErr"]
    /\ UNCHANGED <<events, fanout>>
    /\ UNCHANGED offBridge

\* the catch block of one entry: log, XACK; a rejection of this XACK leaves
\* the for loops for the outer catch
XackAfterError ==
    /\ bridge.pc = "ackErr"
    /\ LET id == Head(bridge.batch)
       IN  \E ok \in RedisOutcomes :
              IF ok
              THEN /\ grp' = [grp EXCEPT !.pel = AckOnError(@, id)]
                   /\ bridge' = NextEntry(bridge)
                   /\ brLog' = brLog
              ELSE /\ grp' = grp
                   /\ bridge' = [bridge EXCEPT !.pc = "sleep", !.batch = <<>>]
                   /\ brLog' = [CountFault(ok) EXCEPT !.cut = @ \cup {id}]
    /\ UNCHANGED <<events, fanout>>
    /\ UNCHANGED offBridge

\* onModuleDestroy: running = false; redis.disconnect()
onModuleDestroy ==
    /\ bridge.pc \notin {"down", "stopped"}
    /\ bridge.running
    /\ bridge' = [bridge EXCEPT !.running = FALSE, !.connected = FALSE]
    /\ UNCHANGED <<events, grp, fanout, brLog>>
    /\ UNCHANGED offBridge

\* the gateway process dies (or exits after shutdown); Redis keeps the group
CrashBridge ==
    /\ bridge.pc # "down"
    /\ brLog.crashes < MaxCrashes
    /\ bridge' = NoBridge
    /\ brLog' = [brLog EXCEPT !.crashes = @ + 1,
                              !.cut = @ \cup (IF bridge.batch = <<>> THEN {}
                                              ELSE {Head(bridge.batch)})]
    /\ UNCHANGED <<events, grp, fanout>>
    /\ UNCHANGED offBridge

InitBridgeSpec ==
    /\ DbNotModelled
    /\ outbox = NotModelled
    /\ PubNotModelled
    /\ SseNotModelled
    /\ InitBridge
    /\ InitNewNotModelled

NextBridge ==
    \/ XaddEvent
    \/ onModuleInit
    \/ Xreadgroup
    \/ XreadgroupThrows
    \/ SleepDone
    \/ ParseEntry
    \/ PublishEntry
    \/ XackEntry
    \/ XackAfterError
    \/ onModuleDestroy
    \/ CrashBridge

SpecBridge == InitBridgeSpec /\ [][NextBridge]_vars

\* the process is restarted by its supervisor and the polling loop keeps
\* running while the process lives
SpecBridgeFair ==
    /\ SpecBridge
    /\ WF_vars(onModuleInit)
    /\ WF_vars(Xreadgroup)
    /\ WF_vars(SleepDone)
    /\ WF_vars(ParseEntry)
    /\ WF_vars(PublishEntry)
    /\ WF_vars(XackEntry)
    /\ WF_vars(XackAfterError)

\* ---------------------------------------------------------------------------
\* Claims about the session-events bridge
\* ---------------------------------------------------------------------------
\* the entry whose try/catch block is running
InHand == IF bridge.batch = <<>> THEN {} ELSE {Head(bridge.batch)}

Attempted(o) == {id \in 1..Len(events) : <<id, o>> \in brLog.outcome}

\* how many times the group handed the entry to a consumer
RECURSIVE TimesClaimed(_, _)
TimesClaimed(id, s) ==
    IF s = <<>> THEN 0
    ELSE (IF Head(s) = id THEN 1 ELSE 0) + TimesClaimed(id, Tail(s))

\* C7: an entry whose delivery attempt has ended (forwarded, parse or
\* validation failure, publish failure) and whose handling was not cut by a
\* process death or a rejected XACK is no longer pending: it was acknowledged.
AckedWhateverOutcome ==
    \A o \in {"forwarded", "parseFailed", "publishFailed"} :
        \A id \in Attempted(o) :
            (id \notin InHand /\ id \notin brLog.cut) => id \notin grp.pel

\* C7 witness: one entry was forwarded, one failed to parse and one failed to
\* publish, and the three are acknowledged.
AllOutcomesAcked ==
    /\ Attempted("forwarded") # {}
    /\ Attempted("parseFailed") # {}
    /\ Attempted("publishFailed") # {}
    /\ brLog.cut = {}
    /\ InHand = {}
    /\ grp.pel = {}

\* C8: an entry that is pending (claimed, not acknowledged) while the process
\* is down is handed to a consumer of the group again after the restart,
\* unless the restarted bridge is shut down first.
PendingRedelivered ==
    \A id \in 1..MaxEvents :
        (bridge.pc = "down" /\ id \in grp.pel)
            ~> (TimesClaimed(id, brLog.claimed) >= 2 \/ bridge.pc = "stopped")

\* ---------------------------------------------------------------------------
\* Retried enqueue: the client repeats a request with the same dto.jobId
\* while the broker is failing, so each call takes the outbox fallback; the
\* publishers drain the table as above.
\* ---------------------------------------------------------------------------
\* CREATE UNIQUE INDEX ux_outbox_idempotency ON outbox (idempotency_key)
\*   WHERE idempotency_key IS NOT NULL
ux_outbox_idempotency(row) ==
    \/ row.idempotency_key = NULL
    \/ \A r \in Range(outbox) : r.idempotency_key # row.idempotency_key

\* enqueue of job J on the catch path: insertOutbox('chat.request', jobId,
\* payload); the INSERT names topic, key and payload_json only
EnqueueFallback ==
    /\ Len(outbox) < MaxRows
    /\ ux_outbox_idempotency(OutboxRow(Len(outbox) + 1, "chat.request", J, J))
    /\ outbox' = insertOutbox("chat.request", J, J)
    /\ delivered' = Append(delivered, 0)
    /\ UNCHANGED <<pub, brokerDown, outage>>
    /\ UNCHANGED offOutbox

NextRetried ==
    \/ EnqueueFallback
    \/ Tick
    \/ \E p \in Publishers :
          \/ SelectDue(p)
          \/ Claim(p)
          \/ Publish(p)
          \/ Reschedule(p)

SpecRetried == InitOutbox /\ [][NextRetried]_vars

\* C11: of the outbox rows written by enqueue calls that carry the same key,
\* at most one reaches published.
OnePublishedPerKey ==
    \A i, j \in 1..Len(outbox) :
        (/\ outbox[i].status = "published"
         /\ outbox[j].status = "published"
         /\ outbox[i].topic = outbox[j].topic
         /\ outbox[i].key = outbox[j].key) => i = j

\* ---------------------------------------------------------------------------
\* Claims about the lifecycle of one chat SSE stream
\* ---------------------------------------------------------------------------
FrameTypes(types) == {k \in 1..Len(sse.frames) : sse.frames[k].type \in types}

\* C12: a done or error frame is the last frame of its stream and the
\* subscriber is completed (closed) once it has been emitted; no event or ping
\* frame follows it.
TerminalClosesStream ==
    \A k \in FrameTypes({"done", "error"}) :
        /\ k = Len(sse.frames)
        /\ sse.closed
        /\ sse.stopped

\* C12 witness: a done entry was emitted from a read that returned entries
\* behind it, and nothing was emitted after it.
TerminalMidBatch ==
    /\ Len(sse.frames) >= 2
    /\ sse.frames[Len(sse.frames)].type = "done"
    /\ sse.frames[Len(sse.frames)].id < sse.readUpTo
    /\ sse.loop = "exited"

\* C13: every blocking read that timed out with no entry has produced a ping
\* frame, and the first of them precedes any terminal frame.
IdleReadPings ==
    /\ Cardinality(FrameTypes({"ping"})) = pings
    /\ pings >= 1 =>
          \E k \in FrameTypes({"ping"}) :
              \A j \in FrameTypes({"done", "error"}) : k < j

\* C13 witness: an idle read, then a terminal frame.
PingThenTerminal ==
    /\ pings >= 1
    /\ Len(sse.frames) >= 2
    /\ sse.frames[1].type = "ping"
    /\ sse.frames[Len(sse.frames)].type \in {"done", "error"}

ReaderTornDown ==
    sse.closed => (~sse.connected /\ ~sse.listening /\ sse.stopped)

\* C15 witness: the client disconnected in the middle of a stream of tokens.
ClientGone ==
    /\ sse.closed
    /\ sse.aborted
    /\ Len(sse.frames) >= 1
    /\ sse.frames[Len(sse.frames)].type = "token"
    /\ ~sse.connected
    /\ ~sse.listening

\* C20: an error frame produced by the handler itself (not a forwarded
\* entry) does not carry the text of the internal error.
ErrorFrameRedacted ==
    \A k \in FrameTypes({"error"}) :
        sse.frames[k].id = 0 =>
            sse.frames[k].data \notin {MessageOf(err) : err \in RedisErrors}

\* ---------------------------------------------------------------------------
\* Claims about the bridge's error handling and shutdown
\* ---------------------------------------------------------------------------
\* C16: an entry whose payload failed to parse or validate was handed out
\* once only, is acknowledged as soon as its catch block has run, and leaves
\* the loop alive: the loop is left only after onModuleDestroy.
BadEntryAckedOnce ==
    /\ \A id \in Attempted("parseFailed") :
          /\ TimesClaimed(id, brLog.claimed) = 1
          /\ (id \notin InHand /\ id \notin brLog.cut) => id \notin grp.pel
    /\ bridge.pc = "stopped" => ~bridge.running

\* C16 witness: a malformed entry was acknowledged and the loop went on to
\* forward a later entry.
BadEntrySurvived ==
    \E id \in Attempted("parseFailed") : \E later \in Attempted("forwarded") :
        /\ id < later
        /\ id \notin grp.pel
        /\ brLog.cut = {}
        /\ brLog.crashes = 0
        /\ bridge.running

ErrorStep ==
    /\ (bridge.pc = "poll" /\ brLog'.faults > brLog.faults)
          => bridge'.pc = "sleep"
    /\ (brLog'.cut # brLog.cut /\ bridge'.pc # "down")
          => bridge'.pc = "sleep"
    /\ (bridge.pc = "sleep" /\ bridge.running /\ bridge'.pc \notin {"sleep", "down"})
          => bridge'.pc = "poll"
    /\ bridge'.pc = "stopped" => ~bridge'.running

\* C17: a rejected XREADGROUP, and an error that escapes the handling of an
\* entry, put the loop to sleep; a running bridge that wakes up polls again;
\* the loop is never left while running is true.
ErrorsSleepThenPoll == [][ErrorStep]_vars

\* C17 witness: an error escaped the handling of an entry, the bridge slept
\* and is polling again.
PollingAfterError ==
    /\ brLog.cut # {}
    /\ brLog.faults >= 1
    /\ brLog.crashes = 0
    /\ bridge.pc = "poll"
    /\ bridge.running

\* C18: when the loop has stopped after a shutdown (no crash, no Redis fault
\* before it), every entry that was forwarded to the PubSub is acknowledged.
ShutdownAcksDelivered ==
    (bridge.pc = "stopped" /\ brLog.crashes = 0 /\ brLog.faults = 0)
        => \A id \in Attempted("forwarded") : id \notin grp.pel

\* ---------------------------------------------------------------------------
\* enqueue with a failing database: one caller, calls one after the other,
\* every statement after the commit of the message row may reject.
\* ---------------------------------------------------------------------------
\* upsertJobQueued or insertOutbox rejects (pool.query throws): nothing in
\* enqueue catches it, the call rejects with the error
QueryRejects(c) ==
    /\ req[c].pc \in {"job", "title_outbox", "outbox"}
    /\ req' = [req EXCEPT ![c].pc = "failed", ![c].dbError = TRUE]
    /\ UNCHANGED <<chat_sessions, chat_messages, sessionLock, jobs, outbox,
                   kafkaLog, sessionStream, calls>>
    /\ UNCHANGED offEnqueue

NextEnqueueDb ==
    \/ StartEnqueue("c1")
    \/ LockSession("c1")
    \/ ComputeCounters("c1")
    \/ InsertAndCommit("c1")
    \/ RollbackMessage("c1")
    \/ UpsertJobQueued("c1")
    \/ ProduceTitle("c1")
    \/ OutboxTitle("c1")
    \/ ProduceRequest("c1")
    \/ OutboxRequest("c1")
    \/ QueryRejects("c1")
    \/ CrashGateway

SpecEnqueueDb == InitEnqueue /\ [][NextEnqueueDb]_vars

\* C19: a call fails only before its message row is committed or because a
\* database statement rejected, never because a publish to the broker threw;
\* a call whose chat.request publish threw and whose outbox insert went
\* through has returned { sessionId, jobId }.
PublishFailureNotFatal ==
    \A c \in Callers :
        /\ (req[c].pc = "failed" /\ ~req[c].dbError) => ~HasLogRow(req[c].jobId)
        /\ (req[c].produceFailed /\ ~req[c].dbError
               /\ req[c].pc \notin {"outbox", "crashed"}) => req[c].pc = "done"

\* C19 witness: the publish of chat.request threw, the call returned, and
\* its message row and its outbox row are there.
ReturnedAfterBrokerFailure ==
    \E c \in Callers :
        /\ req[c].pc = "done"
        /\ req[c].produceFailed
        /\ HasLogRow(req[c].jobId)
        /\ HasOutboxRow(req[c].jobId)

\* ---------------------------------------------------------------------------
\* History queries: ChatResolver.messages -> listMessagesBySession over the
\* rows createUserMessage has committed.
\* ---------------------------------------------------------------------------
Undefined == -1        \* an argument that was not given
DefaultFirst == 50
PageMin == 1
PageMax == 100

Max(a, b) == IF a >= b THEN a ELSE b

RECURSIVE Digits(_)
\* String(idx): the decimal digits of a non-negative integer
Digits(n) == IF n < 10 THEN <<n>> ELSE Digits(n \div 10) \o <<n % 10>>

RECURSIVE NumberOf(_)
\* Number(text) of a string of decimal digits
NumberOf(ds) ==
    IF Len(ds) = 1 THEN ds[1]
    ELSE 10 * NumberOf(SubSeq(ds, 1, Len(ds) - 1)) + ds[Len(ds)]

\* Buffer.from(String(idx)).toString('base64'): a cursor is opaque text
\* that wraps the digits
toCursor(idx) == [base64 |-> Digits(idx)]

\* c ? Number(Buffer.from(c, 'base64').toString()) : undefined
fromCursor(c) == IF c.base64 = <<>> THEN Undefined ELSE NumberOf(c.base64)

\* no before argument (undefined, null or the empty string)
NoCursor == [base64 |-> <<>>]

\* AND cm.message_index < $before, when before is a number
BeforeCursorInclusive(idx, before) == before = Undefined \/ idx <= before

BeforeCursor(idx, before) == before = Undefined \/ idx < before

RECURSIVE OrderDesc(_)
\* ORDER BY cm.message_index DESC
OrderDesc(S) ==
    IF S = {} THEN <<>>
    ELSE LET m == CHOOSE x \in S : \A y \in S : y.message_index <= x.message_index
         IN  <<m>> \o OrderDesc(S \ {m})

Reverse(s) == [i \in 1..Len(s) |-> s[Len(s) + 1 - i]]

\* ChatRepository.listMessagesBySession(sessionId, {first, before})
listMessagesBySession(sessionId, first, before) ==
    LET limit == Min(Max(IF first = Undefined THEN 20 ELSE first, PageMin), PageMax)
        hits  == {m \in MessagesOf(sessionId) :
                     /\ sessionId \in chat_sessions
                     /\ BeforeCursor(m.message_index, before)}
        desc  == OrderDesc(hits)
    IN  Reverse(SubSeq(desc, 1, Min(limit, Len(desc))))

\* an enqueue call that went through: the session exists and its next
\* message row is committed
AppendMessage(s) ==
    /\ Len(chat_messages) < MaxMsgs
    /\ chat_sessions' = chat_sessions \cup {s}
    /\ chat_messages' = Append(chat_messages,
           [session_id |-> s, message_index |-> NextIndex(s),
            turn |-> NextTurn(s), role |-> "user", tag |-> Len(chat_messages) + 1])
    /\ UNCHANGED <<sessionLock, jobs, kafkaLog, sessionStream, req, calls, page>>
    /\ UNCHANGED offList

\* ChatResolver.messages(parent, first, before): decode the cursor, query,
\* and keep the rows of the page
Messages(s, first, before) ==
    /\ page' = [sessionId |-> s, first |-> first, before |-> fromCursor(before),
                rows |-> listMessagesBySession(s,
                            IF first = Undefined THEN DefaultFirst ELSE first,
                            fromCursor(before))]
    /\ UNCHANGED dbVars
    /\ UNCHANGED offList

ListInputsFirst == {Undefined, 0, 1, 2}
ListInputsBefore == {NoCursor} \cup {toCursor(i) : i \in 0..(MaxMsgs + 1)}

NextList ==
    \/ \E s \in SessionIds : AppendMessage(s)
    \/ \E s \in SessionIds : \E first \in ListInputsFirst :
          \E before \in ListInputsBefore : Messages(s, first, before)

InitListSpec ==
    /\ InitDb
    /\ outbox = <<>>
    /\ InitPub
    /\ InitSse
    /\ InitBridge
    /\ InitNew

SpecList == InitListSpec /\ [][NextList]_vars

NextOnePublisher ==
    \/ EnqueueFallback
    \/ Tick
    \/ SelectDue("p1")
    \/ Claim("p1")
    \/ Publish("p1")
    \/ Reschedule("p1")

SpecOnePublisher == InitOutbox /\ [][NextOnePublisher]_vars

Users == {U, "u2"}

\* getUserId / getSessionMeta: SELECT ... FROM chat_sessions WHERE id = $1
OwnerOf(s) == IF s \in chat_sessions THEN U ELSE NULL

\* deleteChatSession, up to the ownership checks (NotFound, Forbidden)
DeleteStart(s, user) ==
    /\ del.pc \in {"idle", "done", "failed"}
    /\ deletion' = Deletion(sessStatus,
                       [pc |-> IF OwnerOf(s) = user THEN "mark" ELSE "failed",
                        sessionId |-> s, user |-> user, result |-> NULL],
                       seen)
    /\ UNCHANGED dbVars
    /\ UNCHANGED offDelete

\* markSessionDeleting: UPDATE chat_sessions SET status = 'deleting' WHERE
\* id = $1; then return { ok: true, status: 'deleting', sessionId }. The
\* outbox event is a TODO comment: no row is inserted.
MarkDeleting ==
    /\ del.pc = "mark"
    /\ \E dbOk \in BOOLEAN :
          deletion' =
              IF dbOk
              THEN Deletion([sessStatus EXCEPT ![del.sessionId] = "deleting"],
                            [del EXCEPT !.pc = "done", !.result = "deleting"],
                            seen)
              ELSE Deletion(sessStatus, [del EXCEPT !.pc = "failed"], seen)
    /\ UNCHANGED dbVars
    /\ UNCHANGED offDelete

\* listSessionsByUser: WHERE cs.user_id = $1 AND cs.status NOT IN
\* ('deleting', 'deleted'); page size and order do not matter here
listSessionsByUser(user) ==
    {s \in chat_sessions :
        OwnerOf(s) = user /\ sessStatus[s] \notin {"deleting", "deleted"}}

\* Query chatSessionList
ListSessions(user) ==
    /\ deletion' = Deletion(sessStatus, del,
           [kind |-> "list", sessionId |-> NULL,
            wasDeleting |-> \E s \in chat_sessions : sessStatus[s] = "deleting",
            sessions |-> listSessionsByUser(user), rows |-> <<>>])
    /\ UNCHANGED dbVars
    /\ UNCHANGED offDelete

\* Query chatSession(id): getSessionMeta, ownership check, hydrate
ChatSession(s, user) ==
    /\ deletion' = Deletion(sessStatus, del,
           [kind |-> "session", sessionId |-> s,
            wasDeleting |-> sessStatus[s] = "deleting",
            sessions |-> IF OwnerOf(s) = user THEN {s} ELSE {},
            rows |-> <<>>])
    /\ UNCHANGED dbVars
    /\ UNCHANGED offDelete

\* the messages field of a ChatSession node the client holds
SessionMessages(s, first, before) ==
    /\ deletion' = Deletion(sessStatus, del,
           [kind |-> "messages", sessionId |-> s,
            wasDeleting |-> sessStatus[s] = "deleting",
            sessions |-> {},
            rows |-> listMessagesBySession(s,
                        IF first = Undefined THEN DefaultFirst ELSE first,
                        fromCursor(before))])
    /\ UNCHANGED dbVars
    /\ UNCHANGED offDelete

\* an enqueue call that went through, as in the history queries above
AppendForDelete(s) ==
    /\ Len(chat_messages) < MaxMsgs
    /\ chat_sessions' = chat_sessions \cup {s}
    /\ chat_messages' = Append(chat_messages,
           [session_id |-> s, message_index |-> NextIndex(s),
            turn |-> NextTurn(s), role |-> "user", tag |-> Len(chat_messages) + 1])
    /\ UNCHANGED <<sessionLock, jobs, kafkaLog, sessionStream, req, calls>>
    /\ UNCHANGED delVars
    /\ UNCHANGED offDelete

NextDelete ==
    \/ \E s \in SessionIds : AppendForDelete(s)
    \/ \E s \in SessionIds : \E user \in Users : DeleteStart(s, user)
    \/ MarkDeleting
    \/ \E user \in Users : ListSessions(user)
    \/ \E s \in SessionIds : \E user \in Users : ChatSession(s, user)
    \/ \E s \in SessionIds : \E before \in {NoCursor, toCursor(2)} :
          SessionMessages(s, Undefined, before)

SpecDelete == InitListSpec /\ [][NextDelete]_vars

\* C23: a history query that ran while its session (for the list: some
\* session) was 'deleting' returned neither that session nor its messages.
DeletingIsHidden ==
    seen.wasDeleting =>
        /\ \A s \in seen.sessions : sessStatus[s] # "deleting"
        /\ seen.rows = <<>>

\* C24: when deleteChatSession has returned { ok, status: 'deleting' } for a
\* session, a SESSION_DELETED row of that session is in the outbox.
DeletedEventEmitted ==
    (del.pc = "done" /\ sessStatus[del.sessionId] = "deleting")
        => \E r \in Range(outbox) :
               r.topic = "SESSION_DELETED" /\ r.key = del.sessionId

\* ---------------------------------------------------------------------------
\* File deletion: IngestResolver.deleteFile marks the file 'deleting' with
\* one autocommitted UPDATE, then produces the delete request to the broker.
\* ---------------------------------------------------------------------------
FileInputs == Files \cup {"f9"}

\* getOwnerId: SELECT owner_id FROM file_metadata WHERE id = $1
getOwnerId(f) == IF f \in Files THEN U ELSE NULL

\* deleteFile up to the ownership checks: NotFoundException when the file
\* has no owner row, ForbiddenException when the owner is someone else
DeleteFileStart(f, user) ==
    /\ fdel.pc \in {"idle", "done", "failed"}
    /\ Len(ingestDelete) < MaxDeletes
    /\ fileDeletion' = FileDeletion(file_metadata,
           [pc |-> IF getOwnerId(f) = user THEN "mark" ELSE "failed",
            fileId |-> f, user |-> user,
            error |-> IF getOwnerId(f) = NULL THEN "NotFound"
                      ELSE IF getOwnerId(f) # user THEN "Forbidden"
                      ELSE NULL,
            result |-> 0],
           ingestDelete)
    /\ UNCHANGED offFile

\* markDeleting: UPDATE file_metadata SET status = 'deleting' WHERE id = $1
\* on the pool (its own transaction); a failure is logged and rethrown
FileMarkDeleting ==
    /\ fdel.pc = "mark"
    /\ \E dbOk \in BOOLEAN :
          fileDeletion' =
              IF dbOk
              THEN FileDeletion([file_metadata EXCEPT ![fdel.fileId] = "deleting"],
                                [fdel EXCEPT !.pc = "produce"], ingestDelete)
              ELSE FileDeletion(file_metadata,
                                [fdel EXCEPT !.pc = "failed", !.error = "db"],
                                ingestDelete)
    /\ UNCHANGED offFile

\* enqueueDelete: jobId = randomUUID(); await kafka.produce('ingest.delete',
\* payload, jobId); return jobId. A rejected produce propagates out of the
\* mutation: nothing catches it and nothing is written to the outbox.
EnqueueDelete ==
    /\ fdel.pc = "produce"
    /\ \E brokerOk \in BOOLEAN :
          fileDeletion' =
              IF brokerOk
              THEN FileDeletion(file_metadata,
                       [fdel EXCEPT !.pc = "done", !.result = Len(ingestDelete) + 1],
                       Append(ingestDelete,
                           [jobId |-> Len(ingestDelete) + 1, userId |-> fdel.user,
                            fileId |-> fdel.fileId, reason |-> "graphql.deleteFile"]))
              ELSE FileDeletion(file_metadata,
                       [fdel EXCEPT !.pc = "failed", !.error = "broker"],
                       ingestDelete)
    /\ UNCHANGED offFile

NextFile ==
    \/ \E f \in FileInputs : \E user \in Users : DeleteFileStart(f, user)
    \/ FileMarkDeleting
    \/ EnqueueDelete

SpecFile == InitListSpec /\ [][NextFile]_vars

\* the delete event of file f is recorded: accepted by the broker on
\* ingest.delete, or waiting in the outbox
DeleteRecorded(f) ==
    \/ \E e \in Range(ingestDelete) : e.fileId = f
    \/ \E r \in Range(outbox) : r.key = f

\* C25: outside the two steps of a running deleteFile call, a file in
\* status 'deleting' has its delete event recorded, also when the call
\* ended on a broker failure.
DeletingHasDeleteEvent ==
    \A f \in Files :
        (file_metadata[f] = "deleting" /\ fdel.pc # "produce")
            => DeleteRecorded(f)

\* ---------------------------------------------------------------------------
\* createUserMessage, statement by statement. Caller c runs on the pooled
\* connection c; a query either resolves or throws, and the two counter
\* queries resolve to a row whose value is a number or is not.
\* ---------------------------------------------------------------------------
QueryOutcomes == {"number", "other", "throws"}

\* const client = await this.pool.connect()
TxConnect(c) ==
    /\ tx[c].pc \in {"idle", "released"}
    /\ txn' = Txn([tx EXCEPT ![c].pc = "begin", ![c].outcome = NULL], rowLock)
    /\ UNCHANGED offTx

\* await client.query('BEGIN'); on a connection already inside a
\* transaction BEGIN is a warning and the transaction goes on
TxBegin(c) ==
    /\ tx[c].pc = "begin"
    /\ \E ok \in BOOLEAN :
          txn' = Txn(IF ok THEN [tx EXCEPT ![c].pc = "lock", ![c].inTxn = TRUE]
                          ELSE [tx EXCEPT ![c].pc = "catch"],
                     rowLock)
    /\ UNCHANGED offTx

\* SELECT id FROM chat_sessions WHERE id=$1 FOR UPDATE: waits while another
\* connection's transaction holds the row
TxLock(c) ==
    /\ tx[c].pc = "lock"
    /\ rowLock \in {NoOne, c}
    /\ \E ok \in BOOLEAN :
          txn' = IF ok THEN Txn([tx EXCEPT ![c].pc = "index"], c)
                      ELSE Txn([tx EXCEPT ![c].pc = "catch"], rowLock)
    /\ UNCHANGED offTx

\* `if (rows.length === 0 || typeof rows[0]?.next_x !== 'number') return
\* Promise.reject(...)`: a return inside try without await, so the catch
\* block is skipped and only finally runs
CounterQuery(c, at, next) ==
    /\ tx[c].pc = at
    /\ \E res \in QueryOutcomes :
          txn' = Txn(CASE res = "number" -> [tx EXCEPT ![c].pc = next]
                       [] res = "other"  -> [tx EXCEPT ![c].pc = "finally",
                                                       ![c].outcome = "rejected"]
                       [] res = "throws" -> [tx EXCEPT ![c].pc = "catch"],
                     rowLock)
    /\ UNCHANGED offTx

TxNextIndex(c) == CounterQuery(c, "index", "turn")
TxNextTurn(c)  == CounterQuery(c, "turn", "insert")

\* INSERT INTO chat_messages ... RETURNING
TxInsert(c) ==
    /\ tx[c].pc = "insert"
    /\ \E ok \in BOOLEAN :
          txn' = Txn([tx EXCEPT ![c].pc = IF ok THEN "commit" ELSE "catch"],
                     rowLock)
    /\ UNCHANGED offTx

\* await client.query('COMMIT'); return insertRows[0]
TxCommit(c) ==
    /\ tx[c].pc = "commit"
    /\ \E ok \in BOOLEAN :
          txn' = IF ok
                 THEN Txn([tx EXCEPT ![c].pc = "finally", ![c].inTxn = FALSE,
                                     ![c].outcome = "returned"],
                          IF rowLock = c THEN NoOne ELSE rowLock)
                 ELSE Txn([tx EXCEPT ![c].pc = "catch"], rowLock)
    /\ UNCHANGED offTx

\* catch (error) { await client.query('ROLLBACK'); throw error }
TxCatch(c) ==
    /\ tx[c].pc = "catch"
    /\ txn' = Txn([tx EXCEPT ![c].pc = "finally", ![c].inTxn = FALSE,
                              ![c].outcome = "thrown"],
                   IF rowLock = c THEN NoOne ELSE rowLock)
    /\ UNCHANGED offTx

\* finally { client.release() }: the connection goes back to the pool as
\* it is
TxFinally(c) ==
    /\ tx[c].pc = "finally"
    /\ txn' = Txn([tx EXCEPT ![c].pc = "released"], rowLock)
    /\ UNCHANGED offTx

NextTx ==
    \E c \in Callers :
       \/ TxConnect(c)
       \/ TxBegin(c)
       \/ TxLock(c)
       \/ TxNextIndex(c)
       \/ TxNextTurn(c)
       \/ TxInsert(c)
       \/ TxCommit(c)
       \/ TxCatch(c)
       \/ TxFinally(c)

SpecTx == InitListSpec /\ [][NextTx]_vars

\* C26: a call that has released its connection has ended its transaction
\* and does not hold the session row lock.
ReleasedOutsideTxn ==
    \A c \in Callers :
        tx[c].pc = "released" => (~tx[c].inTxn /\ rowLock # c)

\* ---------------------------------------------------------------------------
\* Token refresh. refreshOnce and refreshToken each keep one module-level
\* promise; both POST /api/auth/refresh.
\* ---------------------------------------------------------------------------
FetchOutcomes == {"ok", "notOk", "throws"}

\* what the guard's promise resolves to: refreshOnce returns res.ok, and
\* false from its catch; refreshToken returns res.ok ?? null, and null from
\* its catch
ResultOf(g, outcome) ==
    CASE outcome = "ok"    -> "true"
      [] outcome = "notOk" -> "false"
      [] outcome = "throws" -> IF g = "refreshOnce" THEN "false" ELSE "null"

PendingOf(g) ==
    {i \in 1..Len(refreshReq) :
        refreshReq[i].guard = g /\ refreshReq[i].state = "pending"}

\* the mutant: the guard never sees a request in flight
InFlightNever(g) == FALSE

\* `if (!inflightRefresh)` / `if (!refreshing)`: is a promise stored
InFlight(g) == inflight[g] # 0

\* refreshOnce() / refreshToken(): with no promise stored, start the
\* request (the async body runs up to its first await) and store its
\* promise; return the stored promise
CallRefresh(c, g) ==
    /\ got[c].p = 0 \/ got[c].received
    /\ InFlight(g) \/ Len(refreshReq) < MaxRefresh
    /\ LET sawId == IF PendingOf(g) = {} THEN 0 ELSE SetMax(PendingOf(g))
           newId == Len(refreshReq) + 1
       IN  refresh' =
             IF InFlight(g)
             THEN Refresh(inflight, refreshReq,
                      [got EXCEPT ![c] = [guard |-> g, p |-> inflight[g],
                          sawPending |-> sawId, received |-> FALSE,
                          result |-> NULL]])
             ELSE Refresh([inflight EXCEPT ![g] = newId],
                      Append(refreshReq,
                          [guard |-> g, state |-> "pending", result |-> NULL]),
                      [got EXCEPT ![c] = [guard |-> g, p |-> newId,
                          sawPending |-> sawId, received |-> FALSE,
                          result |-> NULL]])
    /\ UNCHANGED offRefresh

\* the fetch of request i completes: try/catch computes the result,
\* finally clears the module variable, the promise settles
SettleRefresh(i) ==
    /\ i \in 1..Len(refreshReq)
    /\ refreshReq[i].state = "pending"
    /\ \E outcome \in FetchOutcomes :
          refresh' = Refresh([inflight EXCEPT ![refreshReq[i].guard] = 0],
                         [refreshReq EXCEPT
                             ![i].state = "settled",
                             ![i].result = ResultOf(refreshReq[i].guard, outcome)],
                         got)
    /\ UNCHANGED offRefresh

\* `await refreshOnce()` / `await refreshToken()` resumes in the caller
AwaitRefresh(c) ==
    /\ got[c].p # 0
    /\ ~got[c].received
    /\ refreshReq[got[c].p].state = "settled"
    /\ refresh' = Refresh(inflight, refreshReq,
                      [got EXCEPT ![c].received = TRUE,
                                  ![c].result = refreshReq[got[c].p].result])
    /\ UNCHANGED offRefresh

NextRefresh ==
    \/ \E c \in RefCallers : \E g \in Guards : CallRefresh(c, g)
    \/ \E i \in 1..MaxRefresh : SettleRefresh(i)
    \/ \E c \in RefCallers : AwaitRefresh(c)

SpecRefresh == InitListSpec /\ [][NextRefresh]_vars

\* C27 as stated: of all refresh requests, at most one is in flight.
OneRefreshInFlight ==
    Cardinality(PendingOf("refreshOnce") \cup PendingOf("refreshToken")) <= 1

\* C27: through one guard at most one refresh request is in flight (so a
\* new one starts only when the previous one has settled), a caller that
\* found a request of its guard in flight holds that request's promise, and
\* what a caller received is the result of the request it holds.
OneRefreshInFlightPerGuard ==
    /\ \A g \in Guards : Cardinality(PendingOf(g)) <= 1
    /\ \A c \in RefCallers :
          /\ got[c].sawPending # 0 => got[c].p = got[c].sawPending
          /\ got[c].received => got[c].result = refreshReq[got[c].p].result

\* C27 witness: two callers of refreshOnce, the second arriving while the
\* request was in flight, both resumed with the one request's result.
TwoCallersOneRefresh ==
    \E c1, c2 \in RefCallers :
        /\ c1 # c2
        /\ got[c1].guard = "refreshOnce"
        /\ got[c1].p # 0
        /\ got[c2].p = got[c1].p
        /\ got[c2].sawPending = got[c1].p
        /\ got[c1].received
        /\ got[c2].received

\* ---------------------------------------------------------------------------
\* useEventSource: one hook instance with fixed options. An EventSource is
\* connecting, open or closed; the retry delay is not modelled, a scheduled
\* timer fires at any later moment. start() runs from the lifecycle effect and
\* from the reconnect timer.
\* ---------------------------------------------------------------------------
\* es.close()
Closed(srcs, i) ==
    IF i \in 1..Len(srcs) THEN [srcs EXCEPT ![i] = "closed"] ELSE srcs

\* stop(): esRef.current?.close(); esRef.current = null; dispatch CLOSED
\* start(): stop(); dispatch START; es = new EventSource(url);
\* esRef.current = es; applyListeners(es)
\* -- the sources and the ref after start()
StartedSources == Append(Closed(sources, esRef), "connecting")
StartedRef == Len(sources) + 1

\* dispatch(...) of the reducer; React drops it once the component is gone
Dispatch(status) ==
    IF hook.phase = "unmounted" THEN hook ELSE [hook EXCEPT !.status = status]

\* the mutant: the timer callback calls start() whatever mounted says
TimerGuardNone == TRUE

\* `if (mounted.current) start()` in the reconnect timer
TimerGuard == mounted

\* lifecycle effect: mounted.current = true; const detach = start()
Mount ==
    /\ hook.phase = "rendered"
    /\ eventSource' = EventSource(StartedSources, StartedRef, TRUE,
                          [hook EXCEPT !.phase = "mounted", !.status = "connecting",
                                       !.detach = StartedRef],
                          timers)
    /\ UNCHANGED offEventSource

\* the consumer calls the returned stop()
Stop ==
    /\ hook.phase = "mounted"
    /\ eventSource' = EventSource(Closed(sources, esRef), 0, mounted,
                          [hook EXCEPT !.status = "closed"], timers)
    /\ UNCHANGED offEventSource

\* reconnect(): stop(); dispatch RECONNECTING; setTimeout(...)
Reconnect ==
    /\ hook.phase = "mounted"
    /\ timers < MaxTimers
    /\ eventSource' = EventSource(Closed(sources, esRef), 0, mounted,
                          [hook EXCEPT !.status = "reconnecting"], timers + 1)
    /\ UNCHANGED offEventSource

\* es.onopen: dispatch OPEN
OnOpen(i) ==
    /\ i \in 1..Len(sources)
    /\ sources[i] = "connecting"
    /\ eventSource' = EventSource([sources EXCEPT ![i] = "open"], esRef, mounted,
                          Dispatch("open"), timers)
    /\ UNCHANGED offEventSource

\* es.onerror: es.close(); dispatch ERROR
OnError(i) ==
    /\ i \in 1..Len(sources)
    /\ sources[i] # "closed"
    /\ eventSource' = EventSource(Closed(sources, i), esRef, mounted,
                          Dispatch("closed"), timers)
    /\ UNCHANGED offEventSource

\* the 'unauthorized' event on source i: es.close(); dispatch UNAUTHORIZED;
\* handleUnauthorized(); reconnect()
OnUnauthorized(i) ==
    /\ i \in 1..Len(sources)
    /\ sources[i] = "open"
    /\ timers < MaxTimers
    /\ eventSource' = EventSource(Closed(Closed(sources, i), esRef), 0, mounted,
                          [hook EXCEPT !.status = "reconnecting"], timers + 1)
    /\ UNCHANGED offEventSource

\* a reconnect timer fires: if (mounted.current) start(); the function
\* start() returns is dropped
TimerFires ==
    /\ timers > 0
    /\ TimerGuard => Len(sources) < MaxSources
    /\ LET late == IF hook.phase = "unmounted" THEN hook.lateTimers + 1
                                               ELSE hook.lateTimers
       IN  eventSource' =
             IF TimerGuard
             THEN EventSource(StartedSources, StartedRef, mounted,
                      [hook EXCEPT !.status = "connecting", !.lateTimers = late],
                      timers - 1)
             ELSE EventSource(sources, esRef, mounted,
                      [hook EXCEPT !.lateTimers = late], timers - 1)
    /\ UNCHANGED offEventSource

\* effect cleanup on unmount: mounted.current = false; detach?.(), which
\* removes the listeners of the source the effect's start() made and closes
\* that source
Unmount ==
    /\ hook.phase = "mounted"
    /\ eventSource' = EventSource(Closed(sources, hook.detach), esRef, FALSE,
                          [hook EXCEPT !.phase = "unmounted"], timers)
    /\ UNCHANGED offEventSource

NextEventSource ==
    \/ Mount
    \/ Stop
    \/ Reconnect
    \/ \E i \in 1..MaxSources : OnOpen(i)
    \/ \E i \in 1..MaxSources : OnError(i)
    \/ \E i \in 1..MaxSources : OnUnauthorized(i)
    \/ TimerFires
    \/ Unmount

SpecEventSource == InitListSpec /\ [][NextEventSource]_vars

NotClosed == {i \in 1..Len(sources) : sources[i] # "closed"}

\* C28: at most one EventSource is not closed, and one that is not closed
\* is the one the mounted hook's esRef points at: after unmount none is left
\* open.
OneReferencedConnection ==
    /\ Cardinality(NotClosed) <= 1
    /\ \A i \in NotClosed : hook.phase = "mounted" /\ esRef = i

\* C29: once the component has unmounted, no step constructs an
\* EventSource.
NoSourceAfterUnmount ==
    [][hook.phase = "unmounted" => Len(sources') = Len(sources)]_vars

\* C29 witness: a reconnect timer scheduled while mounted has fired after
\* the unmount.
TimerFiredAfterUnmount == hook.phase = "unmounted" /\ hook.lateTimers > 0

\* ---------------------------------------------------------------------------
\* chatSessionsStore.ensureLoaded / reset. The fetcher is the caller's; it
\* resolves or rejects some time after the call. The list fields reset()
\* also clears are not part of the model.
\* ---------------------------------------------------------------------------
EmptyId == ""

\* ensureLoaded(id, fetcher): the body has no await, so it runs in one step
EnsureLoaded(c, id) ==
    /\ IF id = EmptyId \/ id \in loadedSessions
       THEN sessionsStore' = SessionsStore(loadedSessions, inflightSessions,
                                fetches, [held EXCEPT ![c] = 0])
       ELSE IF inflightSessions[id] # 0
       THEN sessionsStore' = SessionsStore(loadedSessions, inflightSessions,
                                fetches, [held EXCEPT ![c] = inflightSessions[id]])
       ELSE /\ Len(fetches) < MaxFetches
            /\ sessionsStore' = SessionsStore(loadedSessions,
                     [inflightSessions EXCEPT ![id] = Len(fetches) + 1],
                     Append(fetches, [id |-> id, state |-> "pending"]),
                     [held EXCEPT ![c] = Len(fetches) + 1])
    /\ UNCHANGED offStore

\* the fetcher's promise of fetch i settles: .then adds the id to
\* _loadedSessions when it resolved, .finally deletes the map entry of the
\* id, whichever promise that entry holds by now
FetchSettles(i) ==
    /\ i \in 1..Len(fetches)
    /\ fetches[i].state = "pending"
    /\ \E ok \in BOOLEAN :
          sessionsStore' = SessionsStore(
              IF ok THEN loadedSessions \cup {fetches[i].id} ELSE loadedSessions,
              [inflightSessions EXCEPT ![fetches[i].id] = 0],
              [fetches EXCEPT ![i].state = IF ok THEN "resolved" ELSE "rejected"],
              held)
    /\ UNCHANGED offStore

\* reset(): _loadedSessions.clear(); _inflightSessions.clear(); the fetches
\* in flight go on (the AbortController of ensureLoaded is never aborted)
ResetStore ==
    /\ sessionsStore' = SessionsStore({}, [id \in SessionIds |-> 0], fetches, held)
    /\ UNCHANGED offStore

NextStore ==
    \/ \E c \in Callers : \E id \in SessionIds \cup {EmptyId} : EnsureLoaded(c, id)
    \/ \E i \in 1..MaxFetches : FetchSettles(i)
    \/ ResetStore

SpecStore == InitListSpec /\ [][NextStore]_vars

FetchesInFlight(id) ==
    {i \in 1..Len(fetches) : fetches[i].id = id /\ fetches[i].state = "pending"}

\* C30: of the fetches ensureLoaded started for one session id, at most one
\* is in flight at a time.
OneFetchPerSession ==
    \A id \in SessionIds : Cardinality(FetchesInFlight(id)) <= 1

====
